---- MODULE Spec2Model ----
(***************************************************************************)
(* The FogBugz MCP server: main(), the stdin line listener of              *)
(* startMcpServer, the eight command handlers and the FogBugzApi calls     *)
(* they make.                                                              *)
(*                                                                         *)
(* JavaScript values are tagged records: undefined, null, strings (a       *)
(* string is the sequence of the pieces a template literal joins),         *)
(* numbers, objects (a function from property names to values), arrays     *)
(* and JSON text.                                                          *)
(***************************************************************************)
EXTENDS Naturals, Sequences, FiniteSets, TLC

VARIABLES
    phase,      \* where the process is: "main", "connecting", "serving", "exit0", "exit1"
    config,     \* [url, key]: what argv / the environment supply
    received,   \* the lines the 'line' listener has been called with, in order
    stdout,     \* what console.log has written: [line |-> index of the line handled, env |-> envelope]
    pending,    \* listener invocations suspended at `await handlers.X(api, args)`
    invoked,    \* per line: the handler entered ("handler"), the FogBugzApi methods called
                \* ("api"), the command posted ("post") and how the tracker answered ("reply");
                \* line 0 is main(): its getCurrentUser() and how that settled ("identity")
    stderr      \* what console.error has written: the log lines

vars == <<phase, config, received, stdout, pending, invoked, stderr>>

(* ------------------------------ bounds -------------------------------- *)

MaxLines == 2
MaxCalls == 1

(* -------------------------- JavaScript values -------------------------- *)

Undef == [t |-> "undefined"]
Null == [t |-> "null"]
S(s) == [t |-> "string", v |-> <<s>>]
T(pieces) == [t |-> "string", v |-> pieces]
Num(d) == [t |-> "number", v |-> <<d>>]
Bool(b) == [t |-> "boolean", v |-> <<b>>]
Obj(f) == [t |-> "object", f |-> f]
Arr(seq) == [t |-> "array", v |-> seq]
JsonText(v) == [t |-> "json", v |-> v]
EmptyObj == Obj(<<>>)

\* a property read `v.k` throws a TypeError exactly when v is undefined or null
Nullish(v) == v.t \in {"undefined", "null"}

\* `v.k`, for a v that is not nullish
Get(v, k) ==
    IF v.t = "object" /\ k \in DOMAIN v.f THEN v.f[k] ELSE Undef

\* the operand test of `a || b`
Truthy(v) ==
    CASE v.t \in {"undefined", "null"} -> FALSE
      [] v.t = "string" -> v.v # <<"">>
      [] v.t = "number" -> v.v # <<"0">>
      [] v.t = "boolean" -> v.v = <<"true">>
      [] OTHER -> TRUE

Or(a, b) == IF Truthy(a) THEN a ELSE b

\* `${v}` inside a template literal
Piece(v) ==
    CASE v.t = "undefined" -> <<"undefined">>
      [] v.t = "null" -> <<"null">>
      [] v.t \in {"string", "number", "boolean"} -> v.v
      [] OTHER -> <<"[object Object]">>

\* JSON.stringify, seen through JSON.parse of its output: a property whose
\* value is undefined is left out, an undefined array element becomes null
RECURSIVE JSONstringify(_)
JSONstringify(v) ==
    CASE v.t = "object" ->
            Obj([k \in {j \in DOMAIN v.f : v.f[j].t # "undefined"} |-> JSONstringify(v.f[k])])
      [] v.t = "array" ->
            Arr([i \in DOMAIN v.v |->
                    IF v.v[i].t = "undefined" THEN Null ELSE JSONstringify(v.v[i])])
      [] OTHER -> v

\* an Error object: only its message is read
Err(message) == [message |-> message]
TypeError(what) == Err(T(<<"TypeError: ", what>>))

(* ------------------------- the tracker (FogBugz) ------------------------ *)

BaseUrl == "https://fb.example"
TrackerCaseId == Num("42")
TrackerProjectId == Num("7")

\* what one axios.post to the tracker can come back with:
\*   "ok"      HTTP 200, no errors, the entity asked for is in data
\*   "empty"   HTTP 200, no errors, data holds no such entity (search: cases = [])
\*   "errors"  HTTP 200 with a non-empty errors array
\*   "http"    axios rejects with error.response set (a non-2xx status)
\*   "network" axios rejects without a response
TrackerOutcomes == {"ok", "empty", "errors", "http", "network"}

\* FogBugzApi.request: the error it throws on a failed post
RequestError(outcome) ==
    CASE outcome = "errors" -> Err(T(<<"FogBugz API Error: ", "Error 5: no such case">>))
      [] outcome = "http" -> Err(T(<<"FogBugz API Error: ", "500", " - ", "Internal Server Error">>))
      [] outcome = "network" -> Err(T(<<"connect ECONNREFUSED">>))

RequestFails(outcome) == outcome \in {"errors", "http", "network"}

\* FogBugzApi.getCaseLink
ApiGetCaseLink(caseId) == T(<<BaseUrl, "/default.asp?">> \o Piece(caseId))

(* --------------------------- command handlers -------------------------- *)

ToolNames == {
    "fogbugz_create_case", "fogbugz_update_case", "fogbugz_assign_case",
    "fogbugz_list_my_cases", "fogbugz_search_cases", "fogbugz_get_case_link",
    "fogbugz_view_case", "fogbugz_create_project" }

\* fogbugzTools: the descriptors tools/list returns (name and required arguments)
Descriptor(name, required) ==
    Obj([name |-> S(name),
         inputSchema |-> Obj([type |-> S("object"), required |-> Arr(required)])])

fogbugzTools == Arr(<<
    Descriptor("fogbugz_create_case", <<S("title")>>),
    Descriptor("fogbugz_update_case", <<S("caseId")>>),
    Descriptor("fogbugz_assign_case", <<S("caseId"), S("assignee")>>),
    Descriptor("fogbugz_list_my_cases", <<>>),
    Descriptor("fogbugz_search_cases", <<S("query")>>),
    Descriptor("fogbugz_get_case_link", <<S("caseId")>>),
    Descriptor("fogbugz_view_case", <<S("caseId")>>),
    Descriptor("fogbugz_create_project", <<S("name")>> ) >>)

\* HandlerOf without its default arm: an unmatched name falls into the last case
HandlerOfNoDefault(name) ==
    CASE name = S("fogbugz_create_case") -> "createCase"
      [] name = S("fogbugz_update_case") -> "updateCase"
      [] name = S("fogbugz_assign_case") -> "assignCase"
      [] name = S("fogbugz_list_my_cases") -> "listUserCases"
      [] name = S("fogbugz_search_cases") -> "searchCases"
      [] name = S("fogbugz_get_case_link") -> "getCaseLink"
      [] name = S("fogbugz_view_case") -> "viewCase"
      [] OTHER -> "createProject"

\* HandlerOf without the case of the tool added last
HandlerOfBeforeProjects(name) ==
    CASE name = S("fogbugz_create_case") -> "createCase"
      [] name = S("fogbugz_update_case") -> "updateCase"
      [] name = S("fogbugz_assign_case") -> "assignCase"
      [] name = S("fogbugz_list_my_cases") -> "listUserCases"
      [] name = S("fogbugz_search_cases") -> "searchCases"
      [] name = S("fogbugz_get_case_link") -> "getCaseLink"
      [] name = S("fogbugz_view_case") -> "viewCase"
      [] OTHER -> "default"

\* the switch of the tools/call branch: tool name -> exported handler
HandlerOf(name) ==
    CASE name = S("fogbugz_create_case") -> "createCase"
      [] name = S("fogbugz_update_case") -> "updateCase"
      [] name = S("fogbugz_assign_case") -> "assignCase"
      [] name = S("fogbugz_list_my_cases") -> "listUserCases"
      [] name = S("fogbugz_search_cases") -> "searchCases"
      [] name = S("fogbugz_get_case_link") -> "getCaseLink"
      [] name = S("fogbugz_view_case") -> "viewCase"
      [] name = S("fogbugz_create_project") -> "createProject"
      [] OTHER -> "default"

\* the FogBugzApi method a handler calls, and the command that method posts
ApiOf(handler) ==
    CASE handler = "listUserCases" -> "searchCases"
      [] OTHER -> handler

CmdOf(handler) ==
    CASE handler = "createCase" -> "new"
      [] handler = "updateCase" -> "edit"
      [] handler = "assignCase" -> "assign"
      [] handler = "listUserCases" -> "search"
      [] handler = "searchCases" -> "search"
      [] handler = "viewCase" -> "search"
      [] handler = "createProject" -> "newProject"

\* every handler ends `catch (error) { return JSON.stringify({ error: error.message }) }`
ErrorPayload(error) == JsonText(JSONstringify(Obj([error |-> error.message])))

\* HandlerStart with the destructuring of args moved inside the try
HandlerStartArgsInTry(handler, args) ==
    IF Nullish(args)
    THEN [kind |-> "resolved", calls |-> {},
          text |-> ErrorPayload(
                TypeError("Cannot destructure property of 'args' as it is undefined."))]
    ELSE [kind |-> "await", calls |-> {ApiOf(handler)}, cmd |-> CmdOf(handler)]

\* what a handler hands back before any tracker round trip:
\*   "rejected"  the promise rejects (the destructuring of args, outside the try, threw)
\*   "resolved"  the promise resolves with text, no post was made
\*   "await"     a post is in flight (api names the FogBugzApi method called)
\* `calls` lists the FogBugzApi methods entered.
HandlerStart(handler, args) ==
    IF Nullish(args)
    THEN [kind |-> "rejected", calls |-> {},
          error |-> TypeError("Cannot destructure property of 'args' as it is undefined.")]
    ELSE CASE handler = "getCaseLink" ->
                LET caseId == Get(args, "caseId")
                    caseLink == ApiGetCaseLink(caseId)
                IN  [kind |-> "resolved", calls |-> {"getCaseLink"},
                     text |-> JsonText(JSONstringify(Obj(
                        [caseId |-> caseId, caseLink |-> caseLink,
                         message |-> T(<<"Link to case #">> \o Piece(caseId)
                                        \o <<": ">> \o caseLink.v)])))]
           [] handler = "viewCase" /\ Nullish(Get(args, "caseId")) ->
                \* api.viewCase: caseId.toString() throws before request() is reached
                [kind |-> "resolved", calls |-> {"viewCase"},
                 text |-> ErrorPayload(TypeError(
                    "Cannot read properties of undefined (reading 'toString')"))]
           [] OTHER ->
                [kind |-> "await", calls |-> {ApiOf(handler)}, cmd |-> CmdOf(handler)]

\* the success payload a handler builds from the tracker's data
SuccessPayload(handler, args) ==
    CASE handler = "createCase" ->
            Obj([caseId |-> TrackerCaseId, caseLink |-> ApiGetCaseLink(TrackerCaseId),
                 message |-> T(<<"Created case #">> \o Piece(TrackerCaseId) \o <<": \"">>
                                \o Piece(Get(args, "title")) \o <<"\"", ".">>)])
      [] handler = "updateCase" ->
            Obj([caseId |-> TrackerCaseId, caseLink |-> ApiGetCaseLink(TrackerCaseId),
                 message |-> T(<<"Updated case #">> \o Piece(TrackerCaseId) \o <<".">>)])
      [] handler = "assignCase" ->
            Obj([caseId |-> TrackerCaseId, caseLink |-> ApiGetCaseLink(TrackerCaseId),
                 message |-> T(<<"Assigned case #">> \o Piece(TrackerCaseId) \o <<" to ">>
                                \o Piece(Get(args, "assignee")) \o <<".">>)])
      [] handler = "createProject" ->
            Obj([projectId |-> TrackerProjectId, projectName |-> Get(args, "name"),
                 message |-> T(<<"Created new project: \"">> \o Piece(Get(args, "name"))
                                \o <<"\" (ID: ">> \o Piece(TrackerProjectId) \o <<")">>)])
      [] handler = "viewCase" ->
            Obj([case |-> Obj([id |-> TrackerCaseId,
                               link |-> ApiGetCaseLink(Get(args, "caseId"))]),
                 message |-> T(<<"Retrieved case #">> \o Piece(Get(args, "caseId")))])

\* the payload of the two search handlers: `found` cases came back
SearchPayload(handler, args, found) ==
    LET cases == IF found = 0 THEN Arr(<<>>)
                 ELSE Arr(<<Obj([id |-> TrackerCaseId,
                                 link |-> ApiGetCaseLink(TrackerCaseId)])>>)
        count == Num(IF found = 0 THEN "0" ELSE "1")
    IN  IF handler = "listUserCases"
        THEN LET userDisplay == Or(Get(args, "assignee"), S("current user"))
             IN  Obj([assignee |-> userDisplay, count |-> count, cases |-> cases,
                      message |-> T(<<"Found ">> \o count.v \o <<" active cases assigned to ">>
                                     \o Piece(userDisplay) \o <<".">>)])
        ELSE Obj([query |-> Get(args, "query"), count |-> count, cases |-> cases,
                  message |-> T(<<"Found ">> \o count.v \o <<" cases matching query: \"">>
                                 \o Piece(Get(args, "query")) \o <<"\".">>)])

\* FogBugzApi.viewCase: the error thrown when the search finds no case
NotFound(caseId) == Err(T(<<"Case #">> \o Piece(caseId) \o <<" not found">>))

Resolved(text) == [kind |-> "resolved", text |-> text]
Rejected(error) == [kind |-> "rejected", error |-> error]

\* HandlerFinish without the catch: a failed post rejects the handler's promise
HandlerFinishNoCatch(handler, args, outcome) ==
    IF RequestFails(outcome) THEN Rejected(RequestError(outcome))
    ELSE IF handler = "viewCase" /\ outcome = "empty"
    THEN Rejected(NotFound(Get(args, "caseId")))
    ELSE Resolved(JsonText(EmptyObj))

\* how a handler's promise settles once its post has come back with `outcome`:
\* the try block's value, or its catch block's
HandlerFinish(handler, args, outcome) ==
    IF RequestFails(outcome) THEN Resolved(ErrorPayload(RequestError(outcome)))
    ELSE CASE handler \in {"listUserCases", "searchCases"} ->
                Resolved(JsonText(JSONstringify(
                    SearchPayload(handler, args, IF outcome = "ok" THEN 1 ELSE 0))))
           [] handler = "viewCase" /\ outcome = "empty" ->
                Resolved(ErrorPayload(NotFound(Get(args, "caseId"))))
           [] outcome = "empty" ->
                \* response.case / response.project is undefined: reading ixBug / ixProject throws
                Resolved(ErrorPayload(TypeError("Cannot read properties of undefined")))
           [] OTHER ->
                Resolved(JsonText(JSONstringify(SuccessPayload(handler, args))))

(* ------------------------------ envelopes ------------------------------ *)

SERVER_PROTOCOL_VERSION == S("2024-11-05")
SERVER_NAME == S("FogBugz MCP Server")
SERVER_VERSION == S("1.0.0")

\* console.log(JSON.stringify({ jsonrpc, id, result }))
ResultEnvelope(id, result) ==
    JSONstringify(Obj([jsonrpc |-> S("2.0"), id |-> id, result |-> result]))

\* console.log(JSON.stringify({ jsonrpc, id, error: { code, message } }))
ErrorEnvelope(id, code, message) ==
    JSONstringify(Obj([jsonrpc |-> S("2.0"), id |-> id,
                       error |-> Obj([code |-> Num(code), message |-> message])]))

\* InitializeResult answering with the version the client asked for
InitializeResultEcho(params) ==
    Obj([protocolVersion |-> Or(Get(params, "protocolVersion"), S("2024-11-05")),
         capabilities |-> Obj([tools |-> Obj([listChanged |-> Bool("false")])]),
         serverInfo |-> Obj([name |-> SERVER_NAME, version |-> SERVER_VERSION])])

\* the result of the initialize branch
InitializeResult(params) ==
    Obj([protocolVersion |-> SERVER_PROTOCOL_VERSION,
         capabilities |-> Obj([tools |-> Obj([listChanged |-> Bool("false")])]),
         serverInfo |-> Obj([name |-> SERVER_NAME, version |-> SERVER_VERSION])])

\* the result of the mcp.ping branch
PingResult(params) == Obj([pong |-> Or(Get(params, "ping"), S("pong"))])

\* the result of the tools/call branch, around the handler's text
ToolCallResult(content) ==
    Obj([content |-> Arr(<<Obj([type |-> S("text"), text |-> content])>>)])

(* ------------------------------ the lines ------------------------------- *)

\* JSON.parse: throws a SyntaxError on text that is not JSON
JSONparse(line) ==
    IF line.valid THEN [ok |-> TRUE, value |-> line.value] ELSE [ok |-> FALSE, value |-> Undef]

\* CatchBlock answering with id null whatever the request's id
CatchBlockNullId(line, error) ==
    LET again == JSONparse(line)
    IN  IF ~again.ok \/ Nullish(again.value)
        THEN ErrorEnvelope(Null, "-32700", S("Parse error"))
        ELSE ErrorEnvelope(Null, "-32000", Or(error.message, S("Internal server error")))

\* CatchBlock without the second parse: every failure is a -32000
CatchBlockNoReparse(line, error) ==
    ErrorEnvelope(Null, "-32000", Or(error.message, S("Internal server error")))

\* the listener's catch block: a second JSON.parse of the line, then request.id
CatchBlock(line, error) ==
    LET again == JSONparse(line)
    IN  IF ~again.ok \/ Nullish(again.value)
        THEN ErrorEnvelope(Null, "-32700", S("Parse error"))
        ELSE ErrorEnvelope(Get(again.value, "id"), "-32000",
                           Or(error.message, S("Internal server error")))

\* what the listener does with a line before it returns or first suspends:
\*   emit     the envelopes written (none or one)
\*   suspend  the handler it awaits (none or one): [handler, args, id, start]
Answered(env) == [emit |-> <<env>>, suspend |-> {}]
\* Silent acknowledging with an empty result
SilentAck == [emit |-> <<ResultEnvelope(Null, Null)>>, suspend |-> {}]
Silent == [emit |-> <<>>, suspend |-> {}]
Suspended(handler, args, id) ==
    [emit |-> <<>>,
     suspend |-> {[handler |-> handler, args |-> args, id |-> id,
                   start |-> HandlerStart(handler, args)]}]

\* a read of params.x where params is undefined or null
ParamsThrow(line) ==
    Answered(CatchBlock(line, TypeError("Cannot read properties of undefined")))

InitializeBranch(line, id, params) ==
    IF Nullish(params) THEN ParamsThrow(line)
    ELSE Answered(ResultEnvelope(id, InitializeResult(params)))

ShutdownBranch(id) == Answered(ResultEnvelope(id, Null))

\* PingBranch enforcing the lifecycle: an error until an initialize was received
PingBranchInitializedOnly(line, id, params) ==
    IF \A k \in DOMAIN received :
            ~received[k].valid \/ Get(received[k].value, "method") # S("initialize")
    THEN Answered(ErrorEnvelope(id, "-32002", S("Server not initialized")))
    ELSE IF Nullish(params) THEN ParamsThrow(line)
    ELSE Answered(ResultEnvelope(id, PingResult(params)))

\* the mcp.ping branch
PingBranch(line, id, params) ==
    IF Nullish(params) THEN ParamsThrow(line)
    ELSE Answered(ResultEnvelope(id, PingResult(params)))

\* ListToolsBranch listing the tools once only: empty after the first line
ListToolsBranchOnce(id) ==
    Answered(ResultEnvelope(id, Obj([tools |->
        IF received = <<>> THEN fogbugzTools ELSE Arr(<<>>)])))

\* the mcp.listTools / tools/list branch
ListToolsBranch(id) == Answered(ResultEnvelope(id, Obj([tools |-> fogbugzTools])))

CallToolBranch(line, id, params) ==
    IF Nullish(params) THEN ParamsThrow(line)
    ELSE LET name == Get(params, "name")
             args == Get(params, "arguments")
         IN  IF HandlerOf(name) = "default"
             THEN Answered(CatchBlock(line, Err(T(<<"Unknown tool: ">> \o Piece(name)))))
             ELSE Suspended(HandlerOf(name), args, id)

\* the unknown-method branch writing nothing
UnknownMethodDropped(id, method) == Silent

UnknownMethodBranch(id, method) ==
    Answered(ErrorEnvelope(id, "-32601", T(<<"Method not found: ">> \o Piece(method))))

Listener(line) ==
    LET parsed == JSONparse(line)
        request == parsed.value
    IN  IF ~parsed.ok
        THEN Answered(CatchBlock(line, Err(S("Unexpected token in JSON"))))
        ELSE IF Nullish(request)
        THEN Answered(CatchBlock(line, TypeError("Cannot destructure property 'id' of 'request'")))
        ELSE
        LET id == Get(request, "id")
            method == Get(request, "method")
            params == Get(request, "params")
        IN  CASE method = S("initialize") -> InitializeBranch(line, id, params)
              [] method = S("shutdown") -> ShutdownBranch(id)
              [] method = S("notifications/initialized") -> Silent
              [] method = S("mcp.ping") -> PingBranch(line, id, params)
              [] method \in {S("mcp.listTools"), S("tools/list")} -> ListToolsBranch(id)
              [] method \in {S("mcp.callTool"), S("tools/call")} ->
                    CallToolBranch(line, id, params)
              [] OTHER -> UnknownMethodBranch(id, method)

\* what the listener writes when the promise it awaited has settled as `settled`:
\* the result envelope around the text, or (the await throws) the catch block's
AfterAwait(line, id, settled) ==
    IF settled.kind = "rejected"
    THEN CatchBlock(line, settled.error)
    ELSE ResultEnvelope(id, ToolCallResult(settled.text))

(* ------------------------------ the logger ------------------------------ *)

\* log.info(...), log.error(...): the line each one prints
LogInfo(pieces) == T(<<"[INFO]">> \o pieces)
LogError(pieces) == T(<<"[ERROR]">> \o pieces)

\* log with console.log in place of console.error: the lines land on stdout
logOnStdout(entries) ==
    [out |-> [i \in DOMAIN entries |-> [line |-> 0, env |-> entries[i]]], err |-> <<>>]

\* the logger: what a run of log calls puts on stdout (nothing) and on stderr
log(entries) == [out |-> <<>>, err |-> entries]

\* the log lines of the catch block
CatchLog(line) ==
    LET again == JSONparse(line)
    IN  <<LogError(<<"Error handling request:">>)>>
        \o (IF ~again.ok \/ Nullish(again.value)
            THEN <<LogError(<<"Error parsing request:">>)>> ELSE <<>>)

\* the log lines of the listener, to its return or first suspension
ListenerLog(line) ==
    LET parsed == JSONparse(line)
        request == parsed.value
    IN  IF ~parsed.ok \/ Nullish(request) THEN CatchLog(line)
        ELSE
        LET method == Get(request, "method")
            params == Get(request, "params")
            seen == <<LogInfo(<<"Received request: ">> \o Piece(method))>>
        IN  CASE method = S("initialize") ->
                    IF Nullish(params) THEN seen \o CatchLog(line)
                    ELSE seen \o <<LogInfo(<<"Client requested initialization">>),
                                   LogInfo(<<"Client protocol version: ">> \o
                                       Piece(Or(Get(params, "protocolVersion"),
                                                S("2024-11-05"))))>>
              [] method = S("shutdown") ->
                    seen \o <<LogInfo(<<"Client requested shutdown">>)>>
              [] method = S("notifications/initialized") ->
                    seen \o <<LogInfo(<<"Client sent initialized notification">>)>>
              [] method = S("mcp.ping") ->
                    IF Nullish(params) THEN seen \o CatchLog(line) ELSE seen
              [] method \in {S("mcp.callTool"), S("tools/call")} ->
                    IF Nullish(params) THEN seen \o CatchLog(line)
                    ELSE seen \o <<LogInfo(<<"Tool call: ">> \o Piece(Get(params, "name")))>>
                         \o (IF HandlerOf(Get(params, "name")) = "default"
                             THEN CatchLog(line) ELSE <<>>)
              [] OTHER -> seen

\* the log lines of the listener once the promise it awaited has settled
AfterAwaitLog(line, settled) ==
    IF settled.kind = "rejected" THEN CatchLog(line) ELSE <<>>

(* ----------------------------- the inputs ------------------------------ *)

\* a line a client writes: JSON.stringify of a request object, or something else
Request(id, method, params) ==
    [valid |-> TRUE,
     value |-> JSONstringify(Obj([jsonrpc |-> S("2.0"), id |-> id,
                                  method |-> method, params |-> params]))]

CallParams(name, args) == JSONstringify(Obj([name |-> name, arguments |-> args]))

Ids == {Num("1"), Undef}

\* not JSON at all; JSON, but null; JSON, but a number; JSON, but an array
BadLines == {
    [valid |-> FALSE, value |-> S("{\"jsonrpc\": ")],
    [valid |-> TRUE, value |-> Null],
    [valid |-> TRUE, value |-> Num("5")],
    [valid |-> TRUE, value |-> Arr(<<>>)] }

NoCallLines ==
    { Request(id, S("initialize"), p) : id \in Ids,
        p \in {Undef, EmptyObj, Obj([protocolVersion |-> S("2024-11-05")]),
               Obj([protocolVersion |-> S("2025-03-26")])} }
    \cup { Request(id, S("mcp.ping"), p) : id \in Ids,
        p \in {Undef, EmptyObj, Obj([ping |-> S("hello")])} }
    \cup { Request(id, m, Undef) : id \in Ids,
        m \in {S("shutdown"), S("notifications/initialized"), S("mcp.listTools"),
               S("tools/list"), S("resources/list"), Undef} }

CallMethods == {S("tools/call"), S("mcp.callTool")}

\* the arguments a client may send with a tool name: none, an empty object,
\* or an object holding the tool's required arguments
FullArgs(tool) ==
    CASE tool = "fogbugz_create_case" -> Obj([title |-> S("Crash on save")])
      [] tool = "fogbugz_update_case" -> Obj([caseId |-> Num("42")])
      [] tool = "fogbugz_assign_case" -> Obj([caseId |-> Num("42"), assignee |-> S("Dana")])
      [] tool = "fogbugz_list_my_cases" -> Obj([assignee |-> S("Dana")])
      [] tool = "fogbugz_search_cases" -> Obj([query |-> S("status:Active")])
      [] tool = "fogbugz_get_case_link" -> Obj([caseId |-> Num("42")])
      [] tool = "fogbugz_view_case" -> Obj([caseId |-> Num("42")])
      [] tool = "fogbugz_create_project" -> Obj([name |-> S("Apollo")])

ArgShapes(tool) == {Undef, EmptyObj, FullArgs(tool)}

UnknownTool == "fogbugz_delete_case"

\* tool calls that name one of `tools`, an unknown tool, or no tool, or carry no params
CallLines(tools, ids) ==
    UNION { { Request(id, m, CallParams(S(n), a)) :
                id \in ids, m \in CallMethods, a \in ArgShapes(n) } : n \in tools }
    \cup { Request(id, m, p) : id \in ids, m \in CallMethods,
            p \in {Undef, EmptyObj, CallParams(S(UnknownTool), EmptyObj)} }

\* a session mixes every kind of line with calls of one tool;
\* the tool runs call every tool, with every shape of arguments
SessionLines == BadLines \cup NoCallLines \cup CallLines({"fogbugz_view_case"}, {Num("1")})
ToolLines == CallLines(ToolNames, {Num("1")})

(* ------------------------------ the program ----------------------------- *)

Init ==
    /\ phase = "main"
    /\ config \in [url : {"", BaseUrl}, key : {"", "token"}]
    /\ received = <<>>
    /\ stdout = <<>>
    /\ pending = {}
    /\ invoked = {}
    /\ stderr = <<>>

\* console.log of the envelopes `written` and the log calls `entries` of one step
Console(entries, written) ==
    /\ stdout' = stdout \o log(entries).out \o written
    /\ stderr' = stderr \o log(entries).err

\* main(): exit(1) without both configuration values, else getCurrentUser()
Main ==
    /\ phase = "main"
    /\ IF config.url = "" \/ config.key = ""
       THEN /\ phase' = "exit1"
            /\ Console(<<LogError(<<"Error: FogBugz URL and API key are required">>),
                         LogError(<<"Usage: fogbugz-mcp <fogbugz-url> <api-key>">>),
                         LogError(<<"       or set FOGBUGZ_URL and FOGBUGZ_API_KEY">>)>>, <<>>)
            /\ UNCHANGED invoked
       ELSE /\ phase' = "connecting"
            /\ Console(<<LogInfo(<<"Starting FogBugz MCP server for ", config.url>>)>>, <<>>)
            /\ invoked' = invoked \cup {[line |-> 0, what |-> "api", name |-> "getCurrentUser"],
                                        [line |-> 0, what |-> "post", name |-> "viewPerson"]}
    /\ UNCHANGED <<config, received, pending>>

\* Connected entering the loop however getCurrentUser() settled
ConnectedAnyway(outcome) ==
    /\ phase = "connecting"
    /\ phase' = "serving"
    /\ Console(<<LogInfo(<<"MCP Server started, waiting for requests...">>)>>, <<>>)
    /\ invoked' = invoked \cup {[line |-> 0, what |-> "identity", name |-> outcome]}
    /\ UNCHANGED <<config, received, pending>>

\* main(): getCurrentUser() settles; startMcpServer(api) or exit(1)
Connected(outcome) ==
    /\ phase = "connecting"
    /\ phase' = IF outcome = "ok" THEN "serving" ELSE "exit1"
    /\ Console(IF outcome = "ok"
               THEN <<LogInfo(<<"Connected to FogBugz as ">>),
                      LogInfo(<<"MCP Server started, waiting for requests...">>)>>
               ELSE <<LogError(<<"Error initializing FogBugz API:">>)>>, <<>>)
    /\ invoked' = invoked \cup {[line |-> 0, what |-> "identity", name |-> outcome]}
    /\ UNCHANGED <<config, received, pending>>

\* the listener's effect on everything but the two output channels
Handled(line, n, did) ==
    /\ received' = Append(received, line)
    /\ pending' = pending \cup
         {[line |-> n, handler |-> s.handler, args |-> s.args, id |-> s.id,
           start |-> s.start] : s \in did.suspend}
    /\ invoked' = invoked \cup UNION {
         {[line |-> n, what |-> "handler", name |-> s.handler]}
         \cup {[line |-> n, what |-> "api", name |-> c] : c \in s.start.calls}
         \cup (IF s.start.kind = "await"
               THEN {[line |-> n, what |-> "post", name |-> s.start.cmd]} ELSE {})
         : s \in did.suspend}
    /\ UNCHANGED <<phase, config>>

Written(n, did) == [i \in DOMAIN did.emit |-> [line |-> n, env |-> did.emit[i]]]

\* OnLine writing its envelope ahead of what stdout already holds
OnLineFront(line) ==
    /\ phase = "serving"
    /\ stdout' = Written(Len(received) + 1, Listener(line)) \o stdout
    /\ stderr' = stderr \o log(ListenerLog(line)).err
    /\ Handled(line, Len(received) + 1, Listener(line))

\* OnLine holding a line back while an earlier one is suspended
OnLineSerial(line) ==
    /\ phase = "serving"
    /\ pending = {}
    /\ Console(ListenerLog(line), Written(Len(received) + 1, Listener(line)))
    /\ Handled(line, Len(received) + 1, Listener(line))

\* rl.on('line', ...): the listener runs until it returns or first suspends
OnLine(line) ==
    /\ phase = "serving"
    /\ Console(ListenerLog(line), Written(Len(received) + 1, Listener(line)))
    /\ Handled(line, Len(received) + 1, Listener(line))

\* the awaited handler had settled without a post: the listener goes on
Continue(p) ==
    /\ phase = "serving"
    /\ p \in pending
    /\ p.start.kind # "await"
    /\ Console(AfterAwaitLog(received[p.line], p.start),
               <<[line |-> p.line, env |-> AfterAwait(received[p.line], p.id, p.start)]>>)
    /\ pending' = pending \ {p}
    /\ UNCHANGED <<phase, config, received, invoked>>

\* the tracker answers a post: the handler settles and the listener goes on
TrackerReply(p, outcome) ==
    /\ phase = "serving"
    /\ p \in pending
    /\ p.start.kind = "await"
    /\ Console(AfterAwaitLog(received[p.line], HandlerFinish(p.handler, p.args, outcome)),
               <<[line |-> p.line,
                  env |-> AfterAwait(received[p.line], p.id,
                                     HandlerFinish(p.handler, p.args, outcome))]>>)
    /\ pending' = pending \ {p}
    /\ invoked' = invoked \cup {[line |-> p.line, what |-> "reply", name |-> outcome]}
    /\ UNCHANGED <<phase, config, received>>

\* process.on('SIGINT' / 'SIGTERM'): exit(0)
Signal ==
    /\ phase = "serving"
    /\ phase' = "exit0"
    /\ Console(<<LogInfo(<<"Received signal, shutting down...">>)>>, <<>>)
    /\ UNCHANGED <<config, received, pending, invoked>>

Receive(lines, max) ==
    /\ Len(received) < max
    /\ \E line \in lines : OnLine(line)

Settle ==
    \/ \E p \in pending : Continue(p)
    \/ \E p \in pending, outcome \in TrackerOutcomes : TrackerReply(p, outcome)

Boot ==
    \/ Main
    \/ \E outcome \in TrackerOutcomes : Connected(outcome)

Next ==
    \/ Boot
    \/ Receive(SessionLines, MaxLines)
    \/ Settle
    \/ Signal

Spec == Init /\ [][Next]_vars

ToolNext ==
    \/ Boot
    \/ Receive(ToolLines, MaxCalls)
    \/ Settle
    \/ Signal

ToolSpec == Init /\ [][ToolNext]_vars

(* ------------------------------ properties ------------------------------ *)

Received == 1..Len(received)
Value(n) == received[n].value
IsObject(n) == received[n].valid /\ Value(n).t = "object"
MethodOf(n) == Get(Value(n), "method")
ParamsOf(n) == Get(Value(n), "params")
IdOf(n) == Get(Value(n), "id")

ResponsesTo(n) == {i \in DOMAIN stdout : stdout[i].line = n}
InFlight(n) == \E p \in pending : p.line = n
IsNotification(n) == IsObject(n) /\ MethodOf(n) = S("notifications/initialized")

IsResultEnv(env) == "result" \in DOMAIN env.f /\ "error" \notin DOMAIN env.f
IsErrorEnv(env, code) ==
    /\ "error" \in DOMAIN env.f
    /\ "result" \notin DOMAIN env.f
    /\ Get(env.f.error, "code") = Num(code)
MessageOf(env) == Get(env.f.error, "message")

RecognizedMethods == {
    S("initialize"), S("shutdown"), S("notifications/initialized"), S("mcp.ping"),
    S("mcp.listTools"), S("tools/list"), S("mcp.callTool"), S("tools/call") }

IsCall(n) == IsObject(n) /\ MethodOf(n) \in CallMethods

\* a tools/call or mcp.callTool that names one of the eight tools
NamesKnownTool(n) ==
    /\ IsCall(n)
    /\ ~Nullish(ParamsOf(n))
    /\ Get(ParamsOf(n), "name") \in {S(t) : t \in ToolNames}

\* line m has been taken up and dealt with like any other: nothing written for a
\* notification or while its handler is awaited, one envelope otherwise
Dealt(m) ==
    Cardinality(ResponsesTo(m)) = (IF IsNotification(m) \/ InFlight(m) THEN 0 ELSE 1)

LoopGoesOnAfter(n) ==
    /\ phase \in {"serving", "exit0"}
    /\ \A m \in Received : m > n => Dealt(m)

\* C1: every received request other than notifications/initialized gets at most
\* one response envelope, exactly one once no handler call is outstanding for
\* it, and that envelope carries the request's id.
C1_OneResponseSameId ==
    \A n \in Received :
        IsObject(n) /\ ~IsNotification(n) =>
            /\ Cardinality(ResponsesTo(n)) <= 1
            /\ ~InFlight(n) => Cardinality(ResponsesTo(n)) = 1
            /\ \A i \in ResponsesTo(n) : Get(stdout[i].env, "id") = IdOf(n)

C1_Witness ==
    \E r \in invoked :
        /\ r.what = "reply" /\ r.name = "http"
        /\ Cardinality(ResponsesTo(r.line)) = 1
        /\ IdOf(r.line) = Num("1")

\* C2 as stated: responses are written in the order their lines were received.
C2_ResponsesInReceiveOrder ==
    \A i, j \in DOMAIN stdout : i < j => stdout[i].line < stdout[j].line

\* C2 amended: the responses to lines that do not await a handler (every line
\* but a tools/call or mcp.callTool naming a known tool) are written in the
\* order those lines were received; the response to a call that awaits its
\* handler is written when the handler settles, possibly after later lines'.
C2_UnsuspendedInReceiveOrder ==
    \A i, j \in DOMAIN stdout :
        i < j /\ ~NamesKnownTool(stdout[i].line) /\ ~NamesKnownTool(stdout[j].line)
            => stdout[i].line < stdout[j].line

C2_Witness ==
    /\ Len(stdout) = 2
    /\ ~NamesKnownTool(stdout[1].line) /\ ~NamesKnownTool(stdout[2].line)
    /\ stdout[1].line = 1 /\ stdout[2].line = 2

\* C3 as stated: while a line's handling is suspended, no later line is handled.
C3_NoLineHandledWhileSuspended ==
    \A p \in pending : p.line = Len(received)

\* C3 amended: requests overlap. Only calls naming a known tool are ever
\* suspended, and a suspended call holds nothing back: whatever is in flight,
\* the listener takes up the next line, so a hung call delays its own response only.
C3_SuspendedCallBlocksNothing ==
    /\ \A p \in pending : NamesKnownTool(p.line)
    /\ phase = "serving" /\ Len(received) < MaxLines
            => ENABLED Receive(SessionLines, MaxLines)
    /\ \A n \in Received : ~NamesKnownTool(n) => ~InFlight(n) /\ Dealt(n)

C3_Witness ==
    \E p \in pending : \E i \in DOMAIN stdout : stdout[i].line > p.line

\* C4: a line that is not JSON gets exactly one envelope, an error with id null
\* and code -32700, and the loop goes on: later lines are dealt with as usual.
C4_ParseErrorAnswered ==
    \A n \in Received :
        ~received[n].valid =>
            /\ Cardinality(ResponsesTo(n)) = 1
            /\ \A i \in ResponsesTo(n) :
                /\ IsErrorEnv(stdout[i].env, "-32700")
                /\ Get(stdout[i].env, "id") = Null
            /\ LoopGoesOnAfter(n)

C4_Witness ==
    \E n, m \in Received :
        /\ ~received[n].valid /\ n < m
        /\ \E i \in ResponsesTo(m) : IsResultEnv(stdout[i].env)

\* C5: a request whose method is none of the eight recognized ones gets exactly
\* one envelope, an error with code -32601 whose message is "Method not found: "
\* followed by the method, and the loop goes on.
C5_UnknownMethodAnswered ==
    \A n \in Received :
        IsObject(n) /\ MethodOf(n) \notin RecognizedMethods =>
            /\ Cardinality(ResponsesTo(n)) = 1
            /\ \A i \in ResponsesTo(n) :
                /\ IsErrorEnv(stdout[i].env, "-32601")
                /\ MessageOf(stdout[i].env) = T(<<"Method not found: ">> \o Piece(MethodOf(n)))
            /\ LoopGoesOnAfter(n)

C5_Witness ==
    \E n, m \in Received :
        /\ IsObject(n) /\ MethodOf(n) = S("resources/list") /\ n < m
        /\ \E i \in ResponsesTo(n) : IsErrorEnv(stdout[i].env, "-32601")
        /\ \E i \in ResponsesTo(m) : IsResultEnv(stdout[i].env)

\* C6: a tools/call or mcp.callTool that names none of the eight tools gets one
\* envelope, an error with code -32000 whose message (when params were sent)
\* is "Unknown tool: " followed by the name; no handler is entered and no
\* FogBugzApi method is called for it; the loop goes on.
C6_UnknownToolAnswered ==
    \A n \in Received :
        IsCall(n) /\ ~NamesKnownTool(n) =>
            /\ Cardinality(ResponsesTo(n)) = 1
            /\ \A i \in ResponsesTo(n) :
                /\ IsErrorEnv(stdout[i].env, "-32000")
                /\ ~Nullish(ParamsOf(n)) =>
                      MessageOf(stdout[i].env) =
                        T(<<"Unknown tool: ">> \o Piece(Get(ParamsOf(n), "name")))
            /\ \A r \in invoked : r.line # n
            /\ LoopGoesOnAfter(n)

C6_Witness ==
    \E n, m \in Received :
        /\ IsCall(n) /\ ~Nullish(ParamsOf(n))
        /\ Get(ParamsOf(n), "name") = S(UnknownTool) /\ n < m
        /\ \E i \in ResponsesTo(n) : IsErrorEnv(stdout[i].env, "-32000")
        /\ \E i \in ResponsesTo(m) : IsResultEnv(stdout[i].env)

IsInitialize(n) == IsObject(n) /\ MethodOf(n) = S("initialize")
ResultOf(env) == Get(env, "result")

\* the handler's text inside a tools/call result, parsed
PayloadOf(env) == ResultOf(env).f.content.v[1].f.text.v
ToolOf(n) == Get(ParamsOf(n), "name")
ArgsOf(n) == Get(ParamsOf(n), "arguments")

\* C7 as stated: every initialize, whatever its params, is answered with a result
\* holding protocolVersion, serverInfo.name, serverInfo.version and
\* capabilities.tools.listChanged = false.
C7_InitializeAlwaysResult ==
    \A n \in Received :
        IsInitialize(n) =>
            /\ Cardinality(ResponsesTo(n)) = 1
            /\ \A i \in ResponsesTo(n) :
                /\ IsResultEnv(stdout[i].env)
                /\ Get(ResultOf(stdout[i].env), "protocolVersion").t = "string"
                /\ Get(Get(ResultOf(stdout[i].env), "serverInfo"), "name").t = "string"
                /\ Get(Get(ResultOf(stdout[i].env), "serverInfo"), "version").t = "string"
                /\ Get(Get(Get(ResultOf(stdout[i].env), "capabilities"), "tools"),
                       "listChanged") = Bool("false")

\* C8 as stated: the initialize result carries the protocolVersion the client
\* sent, and the default only when the client sent none.
C8_EchoesClientVersion ==
    \A n \in Received :
        IsInitialize(n) =>
            \A i \in ResponsesTo(n) :
                IsResultEnv(stdout[i].env) =>
                    Get(ResultOf(stdout[i].env), "protocolVersion") =
                        Or(Get(ParamsOf(n), "protocolVersion"), S("2024-11-05"))

\* C8 amended: an initialize that carries params is answered with a result whose
\* protocolVersion is the server's own fixed version, whatever version the
\* client sent; no initialize result carries any other version.
C8_AlwaysServerVersion ==
    \A n \in Received :
        IsInitialize(n) =>
            /\ ~Nullish(ParamsOf(n)) =>
                  \E i \in ResponsesTo(n) : IsResultEnv(stdout[i].env)
            /\ \A i \in ResponsesTo(n) :
                  IsResultEnv(stdout[i].env) =>
                      Get(ResultOf(stdout[i].env), "protocolVersion")
                          = SERVER_PROTOCOL_VERSION

C8_Witness ==
    \E n \in Received :
        /\ IsInitialize(n)
        /\ Get(ParamsOf(n), "protocolVersion") = S("2025-03-26")
        /\ \E i \in ResponsesTo(n) : IsResultEnv(stdout[i].env)

\* the message of the domain error a tracker answer makes the FogBugzApi method throw
DomainFailure(n, outcome) ==
    IF RequestFails(outcome) THEN RequestError(outcome).message
    ELSE NotFound(Get(ArgsOf(n), "caseId")).message

IsDomainFailure(n, outcome) ==
    \/ outcome \in {"errors", "http", "network"}
    \/ outcome = "empty" /\ ToolOf(n) = S("fogbugz_view_case")

\* C9: when the tracker's answer to a tool's post is a domain failure (an HTTP
\* error status, a failed connection, errors reported by the tracker, no case
\* found), the call is answered with one result envelope whose text payload
\* has an error field holding the failure's message, never an error envelope.
C9_DomainFailureIsResult ==
    \A r \in invoked :
        r.what = "reply" /\ IsDomainFailure(r.line, r.name) =>
            /\ Cardinality(ResponsesTo(r.line)) = 1
            /\ \A i \in ResponsesTo(r.line) :
                /\ IsResultEnv(stdout[i].env)
                /\ Get(PayloadOf(stdout[i].env), "error") = DomainFailure(r.line, r.name)

C9_Witness ==
    \E r \in invoked :
        /\ r.what = "reply" /\ r.name = "errors"
        /\ ToolOf(r.line) = S("fogbugz_create_project")
        /\ \E i \in ResponsesTo(r.line) : IsResultEnv(stdout[i].env)

\* a call whose handling raises a TypeError: no arguments at all, or view-case
\* without a caseId (caseId.toString())
RaisesTypeError(n) ==
    \/ Nullish(ArgsOf(n))
    \/ ToolOf(n) = S("fogbugz_view_case") /\ Nullish(Get(ArgsOf(n), "caseId"))

\* C10 as stated: a call of a known tool whose handling raises a TypeError is
\* answered with a -32000 error envelope.
C10_TypeErrorIsProtocolError ==
    \A n \in Received :
        NamesKnownTool(n) /\ RaisesTypeError(n) =>
            \A i \in ResponsesTo(n) : IsErrorEnv(stdout[i].env, "-32000")

\* C10 amended: a call of a known tool that carries no arguments is answered
\* with a -32000 error envelope and reaches no FogBugzApi method; a call that
\* carries an arguments object is answered with a result envelope even when a
\* required argument is missing, and for view-case without caseId that result's
\* payload has an error field and nothing is posted to the tracker.
C10_OnlyAbsentArgsIsProtocolError ==
    \A n \in Received :
        NamesKnownTool(n) =>
            \A i \in ResponsesTo(n) :
                /\ Nullish(ArgsOf(n)) =>
                    /\ IsErrorEnv(stdout[i].env, "-32000")
                    /\ \A r \in invoked : r.line = n => r.what = "handler"
                /\ ~Nullish(ArgsOf(n)) => IsResultEnv(stdout[i].env)
                /\ ~Nullish(ArgsOf(n)) /\ RaisesTypeError(n) =>
                    /\ "error" \in DOMAIN PayloadOf(stdout[i].env).f
                    /\ \A r \in invoked : r.line = n => r.what \in {"handler", "api"}

C10_Witness ==
    \E n \in Received :
        /\ NamesKnownTool(n) /\ ToolOf(n) = S("fogbugz_view_case")
        /\ ArgsOf(n) = EmptyObj
        /\ \E i \in ResponsesTo(n) :
            IsResultEnv(stdout[i].env) /\ "error" \in DOMAIN PayloadOf(stdout[i].env).f

IsPing(n) == IsObject(n) /\ MethodOf(n) = S("mcp.ping")

\* params as the request gives it, an empty mapping when the request has none
ParamsOrEmpty(n) == IF Nullish(ParamsOf(n)) THEN EmptyObj ELSE ParamsOf(n)

\* C11 as stated: a request without params is handled as if params were {}; an
\* mcp.ping is answered with a result whose pong is params.ping when given and
\* "pong" otherwise, also when the request has no params.
C11_PingDefaultsParams ==
    \A n \in Received :
        IsPing(n) =>
            /\ Cardinality(ResponsesTo(n)) = 1
            /\ \A i \in ResponsesTo(n) :
                /\ IsResultEnv(stdout[i].env)
                /\ Get(ResultOf(stdout[i].env), "pong")
                      = Or(Get(ParamsOrEmpty(n), "ping"), S("pong"))

\* the line taken up last is a notifications/initialized
LastIsNotification == received # <<>> /\ IsNotification(Len(received))

\* C12: a notifications/initialized line is handled silently. Nothing is ever
\* written to stdout for it, no handler is entered and no tracker request is made
\* for it, nothing stays in flight for it, and the step that takes it up leaves
\* stdout, the calls in flight, the record of calls and the process's phase as
\* they were; later lines are dealt with as usual.
C12_NotificationSilent ==
    /\ [](\A n \in Received :
            IsNotification(n) =>
                /\ ResponsesTo(n) = {}
                /\ ~InFlight(n)
                /\ \A r \in invoked : r.line # n
                /\ LoopGoesOnAfter(n))
    /\ [][(received' # received /\ LastIsNotification')
            => UNCHANGED <<stdout, pending, invoked, phase, config>>]_vars

C12_Witness ==
    \E n, m \in Received :
        /\ IsNotification(n) /\ n < m
        /\ ResponsesTo(n) = {}
        /\ \E i \in ResponsesTo(m) : IsResultEnv(stdout[i].env)

IsListTools(n) == IsObject(n) /\ MethodOf(n) \in {S("mcp.listTools"), S("tools/list")}

\* fogbugzTools as JSON.stringify writes it, and the eight names as strings
CatalogOnWire == JSONstringify(fogbugzTools)
NamesOfTools == {S(t) : t \in ToolNames}

\* the tool list a response envelope carries
ToolsOf(env) == Get(ResultOf(env), "tools")

\* C13: tools/list and mcp.listTools are stateless. Wherever in a session such a
\* line comes, and whatever was received or is in flight, it gets one result
\* envelope whose tools are the eight descriptors of fogbugzTools, one per tool
\* name; any two such responses of a session carry the identical result.
C13_ListToolsStateless ==
    /\ \A n \in Received :
        IsListTools(n) =>
            /\ Cardinality(ResponsesTo(n)) = 1
            /\ \A i \in ResponsesTo(n) :
                /\ IsResultEnv(stdout[i].env)
                /\ ToolsOf(stdout[i].env) = CatalogOnWire
                /\ Len(ToolsOf(stdout[i].env).v) = 8
                /\ {Get(ToolsOf(stdout[i].env).v[k], "name") : k \in 1..8} = NamesOfTools
    /\ \A n, m \in Received :
        IsListTools(n) /\ IsListTools(m) =>
            \A i \in ResponsesTo(n), j \in ResponsesTo(m) :
                ResultOf(stdout[i].env) = ResultOf(stdout[j].env)

\* mcp.listTools and then tools/list, both answered
C13_Witness ==
    /\ Len(received) = 2
    /\ IsObject(1) /\ MethodOf(1) = S("mcp.listTools")
    /\ IsObject(2) /\ MethodOf(2) = S("tools/list")
    /\ ResponsesTo(1) # {} /\ ResponsesTo(2) # {}

\* a JSON-RPC response envelope carrying exactly one of result and error
IsEnvelope(env) ==
    /\ env.t = "object"
    /\ Get(env, "jsonrpc") = S("2.0")
    /\ ("result" \in DOMAIN env.f) # ("error" \in DOMAIN env.f)

\* C14: every line on stdout is a response envelope, written for a line that was
\* received, carrying exactly one of result and error; whatever the logger
\* prints, at startup, per request, on a failure or on a signal, is on stderr.
C14_OnlyEnvelopesOnStdout ==
    /\ \A i \in DOMAIN stdout :
        /\ stdout[i].line \in Received
        /\ IsEnvelope(stdout[i].env)
    /\ \A i \in DOMAIN stderr :
        stderr[i].t = "string" /\ stderr[i].v[1] \in {"[INFO]", "[ERROR]"}
    /\ phase # "main" => stderr # <<>>
    /\ Len(stderr) >= Len(received)

\* a result and an error envelope on stdout, and the log lines of both requests,
\* of the failure and of the startup on stderr
C14_Witness ==
    /\ \E i \in DOMAIN stdout : IsResultEnv(stdout[i].env)
    /\ \E i \in DOMAIN stdout : \E c \in {"-32700", "-32601", "-32000"} :
            IsErrorEnv(stdout[i].env, c)
    /\ \E i \in DOMAIN stderr : stderr[i].v[1] = "[ERROR]"
    /\ Len(stderr) > Len(stdout) + 2

ConfigComplete == config.url # "" /\ config.key # ""

\* how main()'s getCurrentUser() settled, once it has
Identity == {r.name : r \in {q \in invoked : q.line = 0 /\ q.what = "identity"}}

\* the protocol loop has been entered: the listener is registered or has acted
LoopEntered ==
    phase \in {"serving", "exit0"} \/ received # <<>> \/ stdout # <<>> \/ pending # {}

\* C15: the protocol loop is entered only with both configuration values
\* non-empty and after getCurrentUser() has succeeded. With a value missing the
\* process exits with status 1 without any tracker request; with the identity
\* check failed (an error reply, a reply without a person, no reply) it exits
\* with status 1; in both cases no line has been read and nothing is on stdout.
C15_LoopOnlyAfterStartupChecks ==
    /\ LoopEntered => ConfigComplete /\ Identity = {"ok"}
    /\ ~ConfigComplete /\ phase # "main" => phase = "exit1" /\ invoked = {}
    /\ Identity \notin {{}, {"ok"}} => phase = "exit1"
    /\ phase = "connecting" => ConfigComplete /\ Identity = {}
    /\ phase = "exit1" => received = <<>> /\ stdout = <<>> /\ pending = {}

C15_Witness ==
    /\ phase = "exit1"
    /\ ConfigComplete
    /\ Identity = {"network"}
    /\ received = <<>> /\ stdout = <<>>

IsShutdown(n) == IsObject(n) /\ MethodOf(n) = S("shutdown")

\* how the tracker answered the post made for line n, if it has
RepliesTo(n) == {r.name : r \in {q \in invoked : q.line = n /\ q.what = "reply"}}

\* the envelope for line n as a function of that line and of the tracker's
\* answer to it alone: what the listener writes when the line is the only one
EnvelopeFor(n) ==
    LET did == Listener(received[n])
    IN  IF did.emit # <<>> THEN did.emit[1]
        ELSE LET s == CHOOSE s \in did.suspend : TRUE
             IN  IF s.start.kind # "await"
                 THEN AfterAwait(received[n], s.id, s.start)
                 ELSE AfterAwait(received[n], s.id,
                         HandlerFinish(s.handler, s.args,
                                       CHOOSE o \in RepliesTo(n) : TRUE))

\* C16: the response to a request depends on that request and on the tracker's
\* answer to it only, never on the lines received before it. Every envelope
\* written is the one the same line gets as the first of a session; the same
\* line received twice with the same tracker answer gets the same envelope
\* twice; shutdown gets result null and ends nothing: lines after it are dealt
\* with as usual, and the process exits 0 only on a signal.
C16_ResponseIgnoresHistory ==
    /\ \A i \in DOMAIN stdout : stdout[i].env = EnvelopeFor(stdout[i].line)
    /\ \A i, j \in DOMAIN stdout :
        /\ received[stdout[i].line] = received[stdout[j].line]
        /\ RepliesTo(stdout[i].line) = RepliesTo(stdout[j].line)
        => stdout[i].env = stdout[j].env
    /\ \A n \in Received :
        IsShutdown(n) =>
            /\ Cardinality(ResponsesTo(n)) = 1
            /\ \A i \in ResponsesTo(n) :
                IsResultEnv(stdout[i].env) /\ ResultOf(stdout[i].env) = Null
            /\ LoopGoesOnAfter(n)
            /\ phase = "serving" /\ Len(received) < MaxLines
                    => ENABLED Receive(SessionLines, MaxLines)
    /\ phase = "exit0" =>
            stderr[Len(stderr)] = LogInfo(<<"Received signal, shutting down...">>)

\* after a shutdown and with no initialize, a tool call is answered with the
\* case the tracker returned
C16_Witness ==
    /\ Len(received) = 2
    /\ IsShutdown(1)
    /\ NamesKnownTool(2)
    /\ RepliesTo(2) = {"ok"}
    /\ \E i \in ResponsesTo(2) :
        IsResultEnv(stdout[i].env) /\ stdout[i].env = EnvelopeFor(2)

\* C17 as stated: a -32700 envelope is written only for a line that is not
\* JSON; a line that is JSON, an object or not, is answered with a result, a
\* -32601 or a -32000 envelope.
C17_ParseErrorOnlyForInvalidJson ==
    \A n \in Received :
        received[n].valid =>
            \A i \in ResponsesTo(n) :
                \/ IsResultEnv(stdout[i].env)
                \/ IsErrorEnv(stdout[i].env, "-32601")
                \/ IsErrorEnv(stdout[i].env, "-32000")

\* the tool names tools/list advertises
Advertised == {Get(fogbugzTools.v[k], "name") : k \in DOMAIN fogbugzTools.v}

\* the handlers entered for line n
EnteredFor(n) == {r.name : r \in {q \in invoked : q.line = n /\ q.what = "handler"}}

\* C18: the names tools/list advertises are the names tools/call routes. A call
\* naming an advertised tool enters exactly one handler, the one the switch has
\* for that name, and is never answered "Unknown tool"; a call naming anything
\* else, or nothing, enters no handler; each of the eight handlers is the
\* target of exactly one advertised name.
C18_AdvertisedIsRouted ==
    /\ \A n \in Received :
        IsCall(n) /\ ~Nullish(ParamsOf(n)) =>
            LET name == Get(ParamsOf(n), "name")
            IN  /\ name \in Advertised =>
                    /\ EnteredFor(n) = {HandlerOf(name)}
                    /\ HandlerOf(name) # "default"
                    /\ \A i \in ResponsesTo(n) :
                        IsErrorEnv(stdout[i].env, "-32000") =>
                            MessageOf(stdout[i].env) # T(<<"Unknown tool: ">> \o Piece(name))
                /\ name \notin Advertised => EnteredFor(n) = {}
    /\ Cardinality(Advertised) = 8
    /\ Cardinality({HandlerOf(a) : a \in Advertised}) = 8

C18_Witness ==
    \E n \in Received :
        /\ IsCall(n) /\ ~Nullish(ParamsOf(n))
        /\ Get(ParamsOf(n), "name") = S("fogbugz_create_project")
        /\ EnteredFor(n) = {"createProject"}
        /\ \E i \in ResponsesTo(n) : IsResultEnv(stdout[i].env)

====
